---- MODULE Spec2Model ----
(***************************************************************************)
(* Model of the subconverter command line driver (src/main.rs): argument   *)
(* check, mode dispatch, the generate.ini batch driver                     *)
(* (handle_generate_mode), the direct --url conversion and the server      *)
(* start.                                                                  *)
(*                                                                         *)
(* Text is modelled as a sequence of tokens.  A token is one character of  *)
(* the text ("&", "=", "?") or an indivisible run of unreserved characters *)
(* ("clash", "target", "p1").  The empty string is the empty sequence.     *)
(***************************************************************************)
EXTENDS Naturals, Sequences, FiniteSets, TLC

\* ------------------------------------------------------------------ bounds

\* Largest number of sections of generate.ini.
MaxSections == 2

\* Largest number of times the process is invoked in a row (same arguments,
\* same generate.ini, the files left by the previous invocation).
MaxRuns == 2

\* ------------------------------------------------------------- text helpers

\* Option<T>: None is the empty tuple, Some(v) the one-element tuple.
None == <<>>

Some(v) == <<v>>

IsSome(o) == o # <<>>

\* urlencoding::encode on one character: unreserved characters are kept,
\* every other byte becomes its percent escape.
EncodeToken(c) ==
    IF c = "&" THEN "%26"
    ELSE IF c = "=" THEN "%3D"
    ELSE IF c = "@" THEN "%40"
    ELSE c

\* urlencoding::encode(&s)
Encode(s) == [i \in 1..Len(s) |-> EncodeToken(s[i])]

\* format!("&{}={}", key, value) pushed onto the query string when the value
\* is not empty.
PushParam(key, value) ==
    IF value = <<>> THEN <<>> ELSE <<"&", key, "=">> \o value

\* The query string built for the current section (main.rs 103-132):
\* target and url are required and percent-encoded; ver, emoji and list are
\* appended as they are; include and exclude are percent-encoded.
BuildQuery(items) ==
    <<"target", "=">> \o Encode(items["target"])
        \o <<"&", "url", "=">> \o Encode(items["url"])
        \o PushParam("ver", items["ver"])
        \o PushParam("emoji", items["emoji"])
        \o PushParam("list", items["list"])
        \o PushParam("include", Encode(items["include"]))
        \o PushParam("exclude", Encode(items["exclude"]))

\* format!("/sub?{}", query_string)
SubUri(query) == <<"/sub", "?">> \o query

\* ------------------------------------------------- the /sub request handler

\* Percent-decoding of one token, as the query parser of the handler does.
DecodeToken(c) ==
    IF c = "%26" THEN "&"
    ELSE IF c = "%3D" THEN "="
    ELSE IF c = "%40" THEN "@"
    ELSE c

Decode(s) == [i \in 1..Len(s) |-> DecodeToken(s[i])]

\* Index of the first occurrence of c in s, 0 when there is none.
FirstIndex(s, c) ==
    IF \E i \in 1..Len(s) : s[i] = c
    THEN CHOOSE i \in 1..Len(s) : s[i] = c /\ \A j \in 1..(i - 1) : s[j] # c
    ELSE 0

RECURSIVE Split(_, _)
\* s cut at every occurrence of c.
Split(s, c) ==
    LET k == FirstIndex(s, c)
    IN  IF k = 0 THEN <<s>>
        ELSE <<SubSeq(s, 1, k - 1)>> \o Split(SubSeq(s, k + 1, Len(s)), c)

\* The key=value pairs of a query string: cut at "&", each piece cut at its
\* first "="; the value is percent-decoded.  A piece with no "=" is a key
\* with an empty value.
QueryPairs(query) ==
    LET pieces == Split(query, "&")
        Pair(p) ==
            LET k == FirstIndex(p, "=")
            IN  IF k = 0 THEN [key |-> p, value |-> <<>>]
                ELSE [key |-> SubSeq(p, 1, k - 1),
                      value |-> Decode(SubSeq(p, k + 1, Len(p)))]
    IN  [i \in 1..Len(pieces) |-> Pair(pieces[i])]

\* Whether the query names parameter key.
HasParam(query, key) ==
    \E i \in 1..Len(QueryPairs(query)) : QueryPairs(query)[i].key = <<key>>

\* The value of parameter key (its first occurrence), empty when absent.
Param(query, key) ==
    LET pairs == QueryPairs(query)
    IN  IF \E i \in 1..Len(pairs) : pairs[i].key = <<key>>
        THEN pairs[CHOOSE i \in 1..Len(pairs) :
                     /\ pairs[i].key = <<key>>
                     /\ \A j \in 1..(i - 1) : pairs[j].key # <<key>>].value
        ELSE <<>>

\* The query part of a request URI ("/sub?<query>"), None for another path.
QueryOf(uri) ==
    IF Len(uri) >= 2 /\ uri[1] = "/sub" /\ uri[2] = "?"
    THEN Some(SubSeq(uri, 3, Len(uri)))
    ELSE None

\* Output and source files the model knows.
P1 == <<"p1">>

P2 == <<"p2">>

Paths == {P1, P2}

\* A remote subscription location, always reachable.
Http == <<"http">>

\* The bytes the remote location serves.
RemoteBody == <<"n">>

\* Target dialects the handler renders.
Targets == {<<"clash">>}

\* A file: absent, or present with its content.
NoFile == [exists |-> FALSE, data |-> <<>>]

File(data) == [exists |-> TRUE, data |-> data]

\* Source fetch: a location is a local path or a URL; an unreachable or
\* empty source yields no bytes.
Fetch(url, files) ==
    IF url \in Paths
    THEN (IF files[url].exists THEN files[url].data ELSE <<>>)
    ELSE IF url = Http THEN RemoteBody
    ELSE <<>>

\* The handler of GET /sub: an error status for an unknown route, an unknown
\* target, a missing source or a source with no content; else the document
\* rendered from the source for the target (the raw node list in list mode).
\* Deterministic in (request, files).
CallService(uri, files) ==
    IF QueryOf(uri) = None THEN [status |-> 404, body |-> <<>>]
    ELSE
        LET query == QueryOf(uri)[1]
            target == Param(query, "target")
            src == Fetch(Param(query, "url"), files)
        IN  IF target \notin Targets \/ src = <<>>
            THEN [status |-> 400, body |-> <<>>]
            ELSE IF Param(query, "list") = <<"true">>
            THEN [status |-> 200, body |-> src]
            ELSE [status |-> 200, body |-> target \o src]

\* Faulty variant of IsSuccess: the status is not looked at.
IsSuccess_Always(resp) == TRUE

\* StatusCode::is_success
IsSuccess(resp) == resp.status \in 200..299

\* No response received yet.
NoResp == [status |-> 0, body |-> <<>>]

\* ------------------------------------------------------------ file writing

\* Faulty variant of WriteOk: the file is opened for appending, so the body
\* is added to what the file held.
WriteOk_Append(files, path, body) ==
    [files EXCEPT ![path] = File(files[path].data \o body)]

\* fs::write(path, body) that succeeds: the file holds exactly body.
WriteOk(files, path, body) == [files EXCEPT ![path] = File(body)]

\* The outcomes of fs::write(path, body): it succeeds; or it fails before
\* the file is opened (nothing changes); or it fails after the file was
\* created or truncated, leaving a proper prefix of body.
WriteOutcomes(files, path, body) ==
    {[ok |-> TRUE, files |-> WriteOk(files, path, body)]}
        \cup {[ok |-> FALSE, files |-> files]}
        \cup {[ok |-> FALSE,
               files |-> [files EXCEPT ![path] = File(SubSeq(body, 1, k))]] :
              k \in 0..(Len(body) - 1)}

\* ------------------------------------------------------------------ inputs

\* The keys a generate.ini section may set.
RequiredKeys == {"path", "url", "target"}

OptionKeys == {"ver", "emoji", "list", "include", "exclude", "rename", "ruleset"}

IniKeys == RequiredKeys \cup OptionKeys

\* Option settings of a section: none; every recognised option, with values
\* that need escaping; a version hint whose text holds "&" and "=".
NoOpts == [k \in OptionKeys |-> <<>>]

AllOpts ==
    [NoOpts EXCEPT !["ver"] = <<"3">>, !["emoji"] = <<"true">>,
                   !["list"] = <<"false">>, !["include"] = <<"a", "=", "b">>,
                   !["exclude"] = <<"x", "&", "y">>,
                   !["rename"] = <<"a", "@", "b">>, !["ruleset"] = <<"r">>]

RawOpts == [NoOpts EXCEPT !["ver"] = <<"3", "&", "list", "=", "true">>]

\* The items of a section; get_current(key) is items[key], empty when the
\* section does not set the key.
Items(path, url, target, opts) ==
    [k \in IniKeys |->
        IF k = "path" THEN path
        ELSE IF k = "url" THEN url
        ELSE IF k = "target" THEN target
        ELSE opts[k]]

Clash == <<"clash">>

\* Section bodies: complete entries over the output and source locations,
\* complete entries with options, and entries with one defect each (a
\* missing required key, a section that cannot be entered).
Bodies ==
    {[enter |-> TRUE, items |-> Items(pu[1], pu[2], Clash, NoOpts)] :
        pu \in {<<P1, Http>>, <<P2, Http>>, <<P1, P2>>, <<P2, P2>>, <<P2, P1>>}}
    \cup {[enter |-> TRUE, items |-> Items(P1, Http, Clash, o)] :
        o \in {AllOpts, RawOpts}}
    \cup {[enter |-> TRUE, items |-> Items(<<>>, Http, Clash, NoOpts)],
          [enter |-> TRUE, items |-> Items(P1, <<>>, Clash, NoOpts)],
          [enter |-> TRUE, items |-> Items(P1, Http, <<>>, NoOpts)],
          [enter |-> FALSE, items |-> Items(P1, Http, Clash, NoOpts)]}

\* Section names by position.
NameAt == <<"A", "B", "C", "D">>

\* The section with the empty name.
Unnamed == [name |-> "", enter |-> TRUE, items |-> Items(P1, Http, Clash, NoOpts)]

\* The section lists generate.ini may hold: section names are distinct, and
\* at most one section (the e-th) carries the empty name.
IniContents ==
    UNION {
        {[i \in 1..n |->
            IF i = e THEN Unnamed
            ELSE [name |-> NameAt[i],
                  enter |-> b[i].enter,
                  items |-> b[i].items]] :
          b \in [1..n -> Bodies], e \in 0..n} :
        n \in 0..MaxSections}

\* generate.ini: not read yet, unreadable, or readable with its sections.
IniUnknown == [state |-> "unknown", sections |-> <<>>]

IniUnreadable == [state |-> "unreadable", sections |-> <<>>]

IniChoices ==
    {IniUnreadable} \cup {[state |-> "ok", sections |-> s] : s \in IniContents}

\* Request URIs given with --url: one that converts, one whose source is a
\* file that does not exist.
UrlOk == SubUri(<<"target", "=", "clash", "&", "url", "=", "http">>)

UrlBad == SubUri(<<"target", "=", "clash", "&", "url", "=", "p1">>)

\* Args::parse(): the arguments the control flow reads.  With -g the value of
\* --url is never read, only whether it is given, so one value stands for
\* all; --artifact is read with -g only.
ArgsSet ==
    {a \in [generate : BOOLEAN,
            artifact : {None, Some("B"), Some("")},
            url : {None, Some(UrlOk), Some(UrlBad)},
            output : {None, Some(P1)}] :
        /\ a.generate => a.url # Some(UrlBad)
        /\ ~a.generate => a.artifact = None}

\* The files before the first invocation.
InitialFiles == [p \in Paths |-> IF p = P2 THEN File(<<"n">>) ELSE NoFile]

\* ------------------------------------------------------------------- state

VARIABLES
    args,                 \* the parsed command line
    pc,                   \* position of main
    generate_ini,         \* the content of the file generate.ini
    ini_reader,           \* IniReader: the sections parsed from generate.ini
    sections_to_process,  \* indices (into ini_reader) of the selected sections
    idx,                  \* position of the for loop in sections_to_process
    resp,                 \* the response of the last request
    fs,                   \* the files: path -> file
    settings,             \* whether init_settings has completed
    server,               \* "none", "bound" or "bind_failed"
    result,               \* how the process ended
    requests,             \* the conversion requests issued by this invocation
    writes,               \* the fs::write calls made by this invocation
    attempted,            \* selected sections the loop body has been entered for
    job,                  \* the last completed conversion job, with the files
                          \*   before and after it
    snaps                 \* the files and result at the end of each invocation

vars ==
    <<args, pc, generate_ini, ini_reader, sections_to_process, idx, resp, fs,
      settings, server, result, requests, writes, attempted, job, snaps>>

NoJob == [section |-> 0, status |-> 0]

Init ==
    /\ args \in ArgsSet
    /\ pc = "start"
    /\ generate_ini = IniUnknown
    /\ ini_reader = <<>>
    /\ sections_to_process = <<>>
    /\ idx = 1
    /\ resp = NoResp
    /\ fs = InitialFiles
    /\ settings = FALSE
    /\ server = "none"
    /\ result = "running"
    /\ requests = <<>>
    /\ writes = <<>>
    /\ attempted = {}
    /\ job = NoJob
    /\ snaps = <<>>

\* The process ends with result res, the files being files.
Exit(res, files) ==
    /\ pc' = "exited"
    /\ result' = res
    /\ snaps' = Append(snaps, [files |-> files, result |-> res])

\* ------------------------------------------------------------------- main

\* Faulty variant of ArgsMismatch: only --url without --output is rejected.
ArgsMismatch_UrlOnly(a) == IsSome(a.url) /\ ~IsSome(a.output)

\* args.url.is_some() != args.output.is_some()
ArgsMismatch(a) == IsSome(a.url) # IsSome(a.output)

\* Faulty variant of Mode: --url is checked before -g.
Mode_UrlFirst(a) ==
    IF IsSome(a.url) THEN "direct"
    ELSE IF a.generate THEN "generate"
    ELSE "server"

\* The mode main runs: generate mode is checked first, then --url, else the
\* server.
Mode(a) ==
    IF a.generate THEN "generate"
    ELSE IF IsSome(a.url) THEN "direct"
    ELSE "server"

\* Args::parse() and the check that --url and --output come together;
\* std::process::exit(1) otherwise.
CheckArgs ==
    /\ pc = "start"
    /\ IF ArgsMismatch(args)
       THEN Exit("exit1", fs)
       ELSE pc' = "dispatch" /\ UNCHANGED <<result, snaps>>
    /\ UNCHANGED <<args, generate_ini, ini_reader, sections_to_process, idx,
                   resp, fs, settings, server, requests, writes, attempted, job>>

\* if args.generate { return handle_generate_mode(args.artifact).await; }
RunGenerate ==
    /\ pc = "dispatch"
    /\ Mode(args) = "generate"
    /\ pc' = "gen_parse"
    /\ UNCHANGED <<args, generate_ini, ini_reader, sections_to_process, idx,
                   resp, fs, settings, server, result, requests, writes,
                   attempted, job, snaps>>

\* init_settings(...).await.map_err(...)? : it completes, or main returns
\* its error.
InitSettings ==
    /\ pc = "dispatch"
    /\ Mode(args) # "generate"
    /\ \/ /\ settings' = TRUE
          /\ pc' = "mode"
          /\ UNCHANGED <<result, snaps>>
       \/ /\ Exit("err_other", fs)
          /\ UNCHANGED settings
    /\ UNCHANGED <<args, generate_ini, ini_reader, sections_to_process, idx,
                   resp, fs, server, requests, writes, attempted, job>>

\* Direct mode: the request for args.url is built and served.
DirectRequest ==
    /\ pc = "mode"
    /\ Mode(args) = "direct"
    /\ resp' = CallService(args.url[1], fs)
    /\ requests' = Append(requests, [section |-> 0, uri |-> args.url[1]])
    /\ pc' = "direct_resp"
    /\ UNCHANGED <<args, generate_ini, ini_reader, sections_to_process, idx,
                   fs, settings, server, result, writes, attempted, job, snaps>>

\* Direct mode: a successful response is written to the output file (main
\* returns the error of a failed write); another status ends the process
\* with exit(1).
DirectResponse ==
    /\ pc = "direct_resp"
    /\ IF IsSuccess(resp)
       THEN \E o \in WriteOutcomes(fs, args.output[1], resp.body) :
                /\ fs' = o.files
                /\ writes' = Append(writes,
                       [section |-> 0, path |-> args.output[1], ok |-> o.ok])
                /\ job' = [section |-> 0, status |-> resp.status,
                           body |-> resp.body, path |-> args.output[1],
                           before |-> fs, after |-> o.files,
                           write |-> IF o.ok THEN "ok" ELSE "failed"]
                /\ Exit(IF o.ok THEN "ok" ELSE "err_io", o.files)
       ELSE /\ job' = [section |-> 0, status |-> resp.status,
                       body |-> resp.body, path |-> args.output[1],
                       before |-> fs, after |-> fs, write |-> "none"]
            /\ Exit("exit1", fs)
            /\ UNCHANGED <<fs, writes>>
    /\ UNCHANGED <<args, generate_ini, ini_reader, sections_to_process, idx,
                   resp, settings, server, requests, attempted>>

\* Server mode: HttpServer::new(...).bind(listen_address)? and run; main
\* returns the error of a failed bind.
StartServer ==
    /\ pc = "mode"
    /\ Mode(args) = "server"
    /\ \/ /\ server' = "bound"
          /\ pc' = "serving"
          /\ result' = "serving"
          /\ UNCHANGED snaps
       \/ /\ server' = "bind_failed"
          /\ Exit("err_io", fs)
    /\ UNCHANGED <<args, generate_ini, ini_reader, sections_to_process, idx,
                   resp, fs, settings, requests, writes, attempted, job>>

\* --------------------------------------------------- handle_generate_mode

\* Faulty variant of Selected: the artifact filter is ignored.
Selected_All(name, artifact) == TRUE

\* Whether a section named name passes the artifact filter.
Selected(name, artifact) == IsSome(artifact) => name = artifact[1]

\* sections_to_process: the sections whose name equals the artifact, or all
\* sections when no artifact is given, in the order of generate.ini.
SectionsToProcess(sections, artifact) ==
    SelectSeq([i \in 1..Len(sections) |-> i],
              LAMBDA i : Selected(sections[i].name, artifact))

\* path.is_empty() || url.is_empty() || target.is_empty()
MissingRequired(items) ==
    items["path"] = <<>> \/ items["url"] = <<>> \/ items["target"] = <<>>

\* A section the loop leaves with `continue` before any request: its name is
\* empty, it cannot be entered, or a required parameter is missing.
Skipped(section) ==
    section.name = "" \/ ~section.enter \/ MissingRequired(section.items)

\* ini_reader.parse_file("generate.ini"): the file is read the first time it
\* is needed and stays what it is; an unreadable file is a NotFound error.
ParseFile ==
    /\ pc = "gen_parse"
    /\ \E content \in (IF generate_ini = IniUnknown THEN IniChoices
                       ELSE {generate_ini}) :
          /\ generate_ini' = content
          /\ IF content.state = "unreadable"
             THEN Exit("err_notfound", fs) /\ UNCHANGED ini_reader
             ELSE /\ ini_reader' = content.sections
                  /\ pc' = "gen_select"
                  /\ UNCHANGED <<result, snaps>>
    /\ UNCHANGED <<args, sections_to_process, idx, resp, fs, settings, server,
                   requests, writes, attempted, job>>

\* The artifact filter: nothing selected is a NotFound error when an
\* artifact was named and Ok(()) otherwise.
SelectSections ==
    /\ pc = "gen_select"
    /\ LET sel == SectionsToProcess(ini_reader, args.artifact)
       IN  IF sel = <<>>
           THEN /\ Exit(IF IsSome(args.artifact) THEN "err_notfound" ELSE "ok", fs)
                /\ UNCHANGED <<sections_to_process, idx>>
           ELSE /\ sections_to_process' = sel
                /\ idx' = 1
                /\ pc' = "gen_loop"
                /\ UNCHANGED <<result, snaps>>
    /\ UNCHANGED <<args, generate_ini, ini_reader, resp, fs, settings, server,
                   requests, writes, attempted, job>>

\* One pass of the loop body up to the response: a skipped section moves on
\* to the next; otherwise the request is built from the section and served.
ProcessSection ==
    /\ pc = "gen_loop"
    /\ idx <= Len(sections_to_process)
    /\ LET i == sections_to_process[idx]
           section == ini_reader[i]
           uri == SubUri(BuildQuery(section.items))
       IN  /\ attempted' = attempted \cup {i}
           /\ IF Skipped(section)
              THEN /\ idx' = idx + 1
                   /\ UNCHANGED <<pc, resp, requests>>
              ELSE /\ resp' = CallService(uri, fs)
                   /\ requests' = Append(requests, [section |-> i, uri |-> uri])
                   /\ pc' = "gen_resp"
                   /\ UNCHANGED idx
    /\ UNCHANGED <<args, generate_ini, ini_reader, sections_to_process, fs,
                   settings, server, result, writes, job, snaps>>

\* The rest of the loop body: a successful response is written to the
\* section's path, and a failed write is returned at once (fs::write(..)?);
\* another status is logged and the loop moves on.
HandleResponse ==
    /\ pc = "gen_resp"
    /\ LET i == sections_to_process[idx]
           path == ini_reader[i].items["path"]
       IN  IF IsSuccess(resp)
           THEN \E o \in WriteOutcomes(fs, path, resp.body) :
                    /\ fs' = o.files
                    /\ writes' = Append(writes,
                           [section |-> i, path |-> path, ok |-> o.ok])
                    /\ job' = [section |-> i, status |-> resp.status,
                               body |-> resp.body, path |-> path,
                               before |-> fs, after |-> o.files,
                               write |-> IF o.ok THEN "ok" ELSE "failed"]
                    /\ IF o.ok
                       THEN /\ idx' = idx + 1
                            /\ pc' = "gen_loop"
                            /\ UNCHANGED <<result, snaps>>
                       ELSE /\ Exit("err_io", o.files)
                            /\ UNCHANGED idx
           ELSE /\ job' = [section |-> i, status |-> resp.status,
                           body |-> resp.body, path |-> path,
                           before |-> fs, after |-> fs, write |-> "none"]
                /\ idx' = idx + 1
                /\ pc' = "gen_loop"
                /\ UNCHANGED <<fs, writes, result, snaps>>
    /\ UNCHANGED <<args, generate_ini, ini_reader, sections_to_process, resp,
                   settings, server, requests, attempted>>

\* The loop is over: Ok(()).
GenerateDone ==
    /\ pc = "gen_loop"
    /\ idx > Len(sections_to_process)
    /\ Exit("ok", fs)
    /\ UNCHANGED <<args, generate_ini, ini_reader, sections_to_process, idx,
                   resp, fs, settings, server, requests, writes, attempted, job>>

\* The process is invoked again with the same command line; the files and
\* generate.ini are what the previous invocation left.
Restart ==
    /\ pc = "exited"
    /\ Len(snaps) < MaxRuns
    /\ pc' = "start"
    /\ ini_reader' = <<>>
    /\ sections_to_process' = <<>>
    /\ idx' = 1
    /\ resp' = NoResp
    /\ settings' = FALSE
    /\ server' = "none"
    /\ result' = "running"
    /\ requests' = <<>>
    /\ writes' = <<>>
    /\ attempted' = {}
    /\ job' = NoJob
    /\ UNCHANGED <<args, generate_ini, fs, snaps>>

Next ==
    \/ CheckArgs
    \/ RunGenerate
    \/ InitSettings
    \/ DirectRequest
    \/ DirectResponse
    \/ StartServer
    \/ ParseFile
    \/ SelectSections
    \/ ProcessSection
    \/ HandleResponse
    \/ GenerateDone
    \/ Restart

Spec == Init /\ [][Next]_vars

\* -------------------------------------------------------------- properties

\* The process has come to its end (or serves requests).
Terminated == pc \in {"exited", "serving"}

\* Exactly one of --url and --output was given.
ExactlyOneOfUrlOutput ==
    \/ args.url # None /\ args.output = None
    \/ args.url = None /\ args.output # None

\* The entries of the batch: the selected sections of generate.ini for which
\* a request is issued (those the loop does not skip), in order.
Entries ==
    LET secs == generate_ini.sections
        sel == SectionsToProcess(secs, args.artifact)
    IN  SelectSeq(sel, LAMBDA i : ~Skipped(secs[i]))

\* C1: in generate mode a failing job does not abort its siblings: when
\* handle_generate_mode returns after the loop was entered, the loop body
\* has been entered for every selected section (whatever failed on the way:
\* entering a section, a missing parameter, the conversion, the write).
C1_SiblingsNotAborted ==
    (pc = "exited" /\ sections_to_process # <<>>) =>
        attempted = {sections_to_process[k] : k \in 1..Len(sections_to_process)}

\* C2: an output file is written only for a successful conversion and never
\* partially: after a job (a batch entry or the direct --url conversion) whose
\* response status is a success the output path holds exactly the response
\* body, and after a job whose status is not a success the files are what
\* they were before the job.
C2_WholeFileOnlyOnSuccess ==
    job # NoJob =>
        IF job.status \in 200..299
        THEN job.after[job.path] = File(job.body)
        ELSE job.after = job.before

\* C2 as amended: an output file is written only for a successful
\* conversion, and wholly when the write succeeds: after a job whose status
\* is a success and whose fs::write succeeded the output path holds exactly
\* the response body; when the fs::write failed the error is returned and
\* the output path is unchanged or holds a proper prefix of the body; no
\* other file changes; after a job whose status is not a success nothing was
\* written and the files are what they were before the job.
C2_WholeFileOrFailedWrite ==
    job # NoJob =>
        IF job.status \in 200..299
        THEN /\ \A p \in Paths \ {job.path} : job.after[p] = job.before[p]
             /\ \/ /\ job.write = "ok"
                   /\ job.after[job.path] = File(job.body)
                \/ /\ job.write = "failed"
                   /\ pc = "exited" /\ result = "err_io"
                   /\ \/ job.after = job.before
                      \/ \E k \in 0..(Len(job.body) - 1) :
                            job.after[job.path] = File(SubSeq(job.body, 1, k))
        ELSE job.after = job.before /\ job.write = "none"

\* Witness of C2: a batch entry's conversion succeeded and its file, which
\* held something else, now holds the response body.
C2_Witness ==
    /\ job # NoJob
    /\ job.section # 0
    /\ job.status = 200
    /\ job.write = "ok"
    /\ job.after[job.path] = File(job.body)
    /\ job.before[job.path] # job.after[job.path]

\* C3: a batch entry supplies the option set of the on-demand endpoint: in
\* the request built for a section, every recognised option the section sets
\* is present with the section's value and no option the section leaves out
\* is present.
C3_SameOptionSet ==
    \A r \in 1..Len(requests) :
        requests[r].section # 0 =>
            LET items == ini_reader[requests[r].section].items
                query == QueryOf(requests[r].uri)[1]
            IN  \A k \in OptionKeys :
                    IF items[k] # <<>>
                    THEN HasParam(query, k) /\ Param(query, k) = items[k]
                    ELSE ~HasParam(query, k)

NoBackwardSource ==
    LET secs == generate_ini.sections
        e == Entries
    IN  \A a, b \in 1..Len(e) :
            a <= b => secs[e[a]].items["url"] # secs[e[b]].items["path"]

C5_MismatchExitsFirst ==
    ExactlyOneOfUrlOutput =>
        /\ pc \in {"start", "exited"}
        /\ pc = "exited" => result = "exit1"
        /\ ~settings
        /\ requests = <<>>
        /\ writes = <<>>
        /\ fs = InitialFiles
        /\ generate_ini = IniUnknown
        /\ server = "none"

\* Witness of C5: -g with --output and no --url has exited with status 1.
C5_Witness ==
    /\ args.generate
    /\ args.url = None /\ args.output # None
    /\ pc = "exited"
    /\ result = "exit1"

\* C6: --artifact selects the section that is processed: with an artifact,
\* requests and file writes are made only for sections of exactly that name;
\* when no section has the name, handle_generate_mode returns NotFound with
\* no request and no write; with no artifact and no section it returns Ok
\* with no request and no write.
C6_ArtifactSelects ==
    /\ IsSome(args.artifact) =>
          /\ \A r \in 1..Len(requests) :
                requests[r].section # 0 =>
                    ini_reader[requests[r].section].name = args.artifact[1]
          /\ \A w \in 1..Len(writes) :
                writes[w].section # 0 =>
                    ini_reader[writes[w].section].name = args.artifact[1]
    /\ (/\ pc = "exited"
        /\ args.generate
        /\ generate_ini.state = "ok"
        /\ IsSome(args.artifact)
        /\ \A i \in 1..Len(generate_ini.sections) :
              generate_ini.sections[i].name # args.artifact[1])
          => (result = "err_notfound" /\ requests = <<>> /\ writes = <<>>
              /\ job = NoJob)
    /\ (/\ pc = "exited"
        /\ args.generate
        /\ generate_ini.state = "ok"
        /\ args.artifact = None
        /\ generate_ini.sections = <<>>)
          => (result = "ok" /\ requests = <<>> /\ writes = <<>> /\ job = NoJob)

\* Witness of C6: with --artifact B and two complete sections A and B, the
\* run has ended Ok with one request and one write, both for B.
C6_Witness ==
    /\ args.generate
    /\ args.artifact = Some("B")
    /\ pc = "exited"
    /\ result = "ok"
    /\ Len(ini_reader) = 2
    /\ ~Skipped(ini_reader[1])
    /\ ini_reader[1].name = "A"
    /\ Len(requests) = 1 /\ requests[1].section = 2
    /\ Len(writes) = 1 /\ writes[1].section = 2 /\ writes[1].ok

\* C7 as stated: one mode runs and generate mode is checked first: at the
\* end, with -g there was no direct conversion and no bind; otherwise with
\* --url exactly one request was issued and the process ended without a bind;
\* otherwise the server is started and main wrote no file.
C7_OneMode ==
    Terminated =>
        IF args.generate
        THEN /\ \A r \in 1..Len(requests) : requests[r].section # 0
             /\ server = "none"
        ELSE IF args.url # None
        THEN Len(requests) = 1 /\ server = "none" /\ pc = "exited"
        ELSE pc = "serving" /\ server = "bound" /\ writes = <<>>

\* C7 as amended: when --url and --output are given together or not at all,
\* one mode runs and generate mode is checked first: with -g only the batch
\* driver runs (no settings initialisation, no direct conversion, no bind),
\* also when --url and --output are given; otherwise, when the settings
\* initialisation fails nothing else happens, and when it succeeds, with
\* --url exactly one request (the direct one) is issued and the process ends
\* without a bind, and without --url the bind is attempted, the server runs
\* if it succeeds, and main issues no request and writes no file.
C7_OneModeAmended ==
    (Terminated /\ ~ExactlyOneOfUrlOutput) =>
        IF args.generate
        THEN /\ \A r \in 1..Len(requests) : requests[r].section # 0
             /\ \A w \in 1..Len(writes) : writes[w].section # 0
             /\ ~settings
             /\ server = "none"
             /\ pc = "exited"
        ELSE IF ~settings
        THEN /\ result = "err_other"
             /\ requests = <<>> /\ writes = <<>> /\ server = "none"
        ELSE IF args.url # None
        THEN /\ Len(requests) = 1 /\ requests[1].section = 0
             /\ server = "none"
             /\ pc = "exited"
        ELSE /\ server \in {"bound", "bind_failed"}
             /\ (pc = "serving") = (server = "bound")
             /\ requests = <<>> /\ writes = <<>>

\* Witness of C7: -g with --url and --output has run the batch driver to its
\* end: a request for a section was issued and its file written.
C7_Witness ==
    /\ args.generate
    /\ args.url # None /\ args.output # None
    /\ pc = "exited"
    /\ result = "ok"
    /\ requests # <<>>
    /\ writes # <<>>

====
